---- MODULE Spec2Model ----
(***************************************************************************)
(* EV datalogger (src/src/logger.c): the acquisition-to-storage pipeline.  *)
(*                                                                         *)
(* The ring buffer (ringbuf_write, ringbuf_read, rb_getused_m,             *)
(* rb_getfree_m), the timer-tick sample producer (TIMER1_A0_ISR), the      *)
(* debounced start/stop button (PORT1_ISR, logger_enable, logger_disable)  *)
(* and the supervisory loop of sd_setup (mount, open on start, drain,      *)
(* flush/sync/close on stop, status refresh).                              *)
(*                                                                         *)
(* The model is a scale model of the buffer: SD_RINGBUF_LEN, the 512-byte  *)
(* storage block and sizeof(SampleBuffer) are scaled down together         *)
(* (SD_RINGBUF_LEN = 2^LenBits, the block is half of the buffer as 512 is  *)
(* of 1024); the ring buffer operators take the buffer as a record, as the *)
(* code takes a RingBuffer*, so they are also evaluated at capacity 1024.  *)
(***************************************************************************)
EXTENDS Integers, Sequences, FiniteSets, TLC

(***************************************************************************)
(* Bounds of the model.                                                    *)
(***************************************************************************)
\* log2 of the ring buffer's capacity (the code needs a power of two: mask)
LenBits == 3
\* sizeof(SampleBuffer), the bytes pushed by one timer tick
SampleSize == 3
\* bytes the callers of the ring buffer API offer in total (SpecRB)
MaxBytes == 10
\* timer ticks (samples taken) in one run of the system
MaxSamples == 6
\* failing results the storage driver returns in one run
MaxFail == 1
\* last value of the system tick counter clock_time()
MaxClock == 999
\* failing results f_mount returns before it succeeds
MaxMountFail == 3

(***************************************************************************)
(* Program constants.                                                      *)
(***************************************************************************)
\* sdbuf->len = SD_RINGBUF_LEN
SD_RINGBUF_LEN == 2 ^ LenBits
\* the storage block: sd_write(sdbuf, writebuf, &fil, 512), writebuf[512]
BlockSize == SD_RINGBUF_LEN \div 2
\* (clock_time() - time) > 250
DebounceTicks == 250
\* (clock_time() % 333) == 0
LcdPeriod == 333

VARIABLES
    sdbuf,          \* the RingBuffer: buffer, head, tail, overflow, len, mask
    writebuf,       \* the scratch buffer and, past BlockSize, the memory after it
    logger_running, \* static volatile uint8_t logger_running
    file_open,      \* static volatile uint8_t file_open
    time,           \* static volatile uint32_t time: tick of the last toggle
    clock,          \* clock_time(), the system tick counter
    timer_on,       \* TA1CTL mode control: TRUE when TA1 counts (MC_1)
    sb,             \* the SampleBuffer: number of the sample it holds
    pc,             \* where logger_init / sd_setup stands
    fr,             \* FRESULT fr of sd_setup / sd_write
    rn,             \* n inside ringbuf_read (clamped to the occupancy)
    wn,             \* n of sd_write: the bytes f_write is asked to write
    ctx,            \* the call site of sd_write: "flush" or "drain"
    fops,           \* the calls made to the card and the storage driver
    reports,        \* the failure reports sent to the status sink
    lcd,            \* the text lcd_debug shows
    edges,          \* the last two button-S1 edges: tick and whether it toggled
    last,           \* the last ring buffer call: op, n, ret, out
    accepted,       \* every byte a successful ringbuf_write took, in order
    delivered,      \* every byte a ringbuf_read handed out, in order
    respects        \* every write so far had n < capacity and n <= free space

\* the ring buffer and the record of its calls
rbvars == <<sdbuf, last, accepted, delivered, respects>>
\* the button, the clock and the timer
btnvars == <<logger_running, time, timer_on>>
\* the supervisory loop and the storage
loopvars == <<writebuf, file_open, pc, fr, rn, wn, ctx, fops, reports, lcd>>

vars == <<rbvars, btnvars, loopvars, clock, sb, edges>>

(***************************************************************************)
(* C integer arithmetic.                                                   *)
(***************************************************************************)
\* uint16_t arithmetic wraps modulo 2^16
U16(x) == x % 65536

\* x & y on naturals
RECURSIVE BitAnd(_, _)
BitAnd(x, y) ==
    IF x = 0 \/ y = 0 THEN 0
    ELSE (x % 2) * (y % 2) + 2 * BitAnd(x \div 2, y \div 2)

\* a char holds one byte
Byte(x) == x % 256

(***************************************************************************)
(* The ring buffer.                                                        *)
(***************************************************************************)
\* #define rb_getused_m(b)
rb_getused_m(b) ==
    IF b.tail = b.head THEN 0 ELSE U16(b.head - b.tail + b.len) % b.len

\* #define rb_getfree_m(b)
rb_getfree_m(b) ==
    IF b.tail = b.head THEN b.len ELSE U16(b.tail - b.head + b.len) % b.len

\* memcpy(buffer + at, src + from, cnt) into the ring's storage array
memcpy_in(buffer, at, src, from, cnt) ==
    [i \in DOMAIN buffer |->
        IF at <= i /\ i < at + cnt THEN src[from + (i - at) + 1] ELSE buffer[i]]

\* memcpy(read_buffer + ..., buffer + at, cnt): the bytes copied out
memcpy_out(buffer, at, cnt) == [k \in 1..cnt |-> buffer[at + k - 1]]

\* sd_setup: initialise the ring buffer for SD transfers
sdbuf_init ==
    [buffer   |-> [i \in 0..(SD_RINGBUF_LEN - 1) |-> 0],
     head     |-> 0,
     tail     |-> 0,
     overflow |-> 0,
     len      |-> SD_RINGBUF_LEN,
     mask     |-> SD_RINGBUF_LEN - 1]

\* the overflow branch of ringbuf_write
MutNoOverflowFlag(b) == b
rb_set_overflow(b) == [b EXCEPT !.overflow = 1]

\* uint8_t ringbuf_write(RingBuffer *buf, char* data, uint16_t n)
\* returns the buffer afterwards and the return value
ringbuf_write(b, data, n) ==
    IF n >= b.len THEN [buf |-> b, ret |-> 1]
    ELSE IF rb_getfree_m(b) < n THEN [buf |-> rb_set_overflow(b), ret |-> 1]
    ELSE IF b.head + n < b.len
    THEN [buf |-> [b EXCEPT !.buffer = memcpy_in(b.buffer, b.head, data, 0, n),
                            !.head = BitAnd(U16(b.head + n), b.mask)],
          ret |-> 0]
    ELSE LET rem  == b.len - b.head
             buf1 == memcpy_in(b.buffer, b.head, data, 0, rem)
             h1   == BitAnd(U16(b.head + rem), b.mask)
             buf2 == memcpy_in(buf1, h1, data, rem, n - rem)
             h2   == BitAnd(U16(h1 + (n - rem)), b.mask)
         IN  [buf |-> [b EXCEPT !.buffer = buf2, !.head = h2], ret |-> 0]

\* ringbuf_read, the copy: the bytes copied out and the buffer afterwards
MutReadClearsOverflow(b, n) ==
    IF b.tail + n < b.len
    THEN [buf |-> [b EXCEPT !.tail = BitAnd(U16(b.tail + n), b.mask),
                            !.overflow = 0],
          out |-> memcpy_out(b.buffer, b.tail, n)]
    ELSE LET rem == b.len - b.tail
             o1  == memcpy_out(b.buffer, b.tail, rem)
             t1  == BitAnd(U16(b.tail + rem), b.mask)
             o2  == memcpy_out(b.buffer, t1, n - rem)
             t2  == BitAnd(U16(t1 + (n - rem)), b.mask)
         IN  [buf |-> [b EXCEPT !.tail = t2, !.overflow = 0], out |-> o1 \o o2]
rb_read_copy(b, n) ==
    IF b.tail + n < b.len
    THEN [buf |-> [b EXCEPT !.tail = BitAnd(U16(b.tail + n), b.mask)],
          out |-> memcpy_out(b.buffer, b.tail, n)]
    ELSE LET rem == b.len - b.tail
             o1  == memcpy_out(b.buffer, b.tail, rem)
             t1  == BitAnd(U16(b.tail + rem), b.mask)
             o2  == memcpy_out(b.buffer, t1, n - rem)
             t2  == BitAnd(U16(t1 + (n - rem)), b.mask)
         IN  [buf |-> [b EXCEPT !.tail = t2], out |-> o1 \o o2]

\* ringbuf_read, the clamp: we can't read more bytes than the buffer contains
MutNoClamp(b, n) == n
rb_read_clamp(b, n) == IF n > rb_getused_m(b) THEN rb_getused_m(b) ELSE n

\* uint8_t ringbuf_read(RingBuffer *buf, char* read_buffer, uint16_t n)
MutReadBound(b, n) ==
    IF n > b.len THEN [buf |-> b, out |-> <<>>, ret |-> 1]
    ELSE LET r == rb_read_copy(b, rb_read_clamp(b, n))
         IN  [buf |-> r.buf, out |-> r.out, ret |-> 0]
ringbuf_read(b, n) ==
    IF n >= b.len THEN [buf |-> b, out |-> <<>>, ret |-> 1]
    ELSE LET r == rb_read_copy(b, rb_read_clamp(b, n))
         IN  [buf |-> r.buf, out |-> r.out, ret |-> 0]

(***************************************************************************)
(* The ring buffer API under arbitrary callers (SpecRB).                   *)
(***************************************************************************)
\* the bytes a caller offers: the next n labels after the accepted stream
Labels(from, n) == [k \in 1..n |-> Byte(from + k)]

\* request sizes: 0 .. capacity + 1 (caller errors included)
Sizes == 0..(SD_RINGBUF_LEN + 1)

InitRB ==
    /\ sdbuf = sdbuf_init
    /\ last = [op |-> "init", n |-> 0, ret |-> 0, out |-> <<>>]
    /\ accepted = <<>>
    /\ delivered = <<>>
    /\ respects = TRUE
    /\ writebuf = [i \in 1..BlockSize |-> 0]
    /\ logger_running = 0
    /\ file_open = 0
    /\ time = 0
    /\ clock = 0
    /\ timer_on = FALSE
    /\ sb = 0
    /\ pc = "api"
    /\ fr = 0
    /\ rn = 0
    /\ wn = 0
    /\ ctx = "none"
    /\ fops = <<>>
    /\ reports = <<>>
    /\ lcd = ""
    /\ edges = <<>>

\* a caller calls ringbuf_write(&sdbuf, data, n)
CallWrite(n) ==
    /\ Len(accepted) + n <= MaxBytes
    /\ LET data == Labels(Len(accepted), n)
           r    == ringbuf_write(sdbuf, data, n)
       IN  /\ sdbuf' = r.buf
           /\ last' = [op |-> "write", n |-> n, ret |-> r.ret, out |-> <<>>]
           /\ accepted' = IF r.ret = 0 THEN accepted \o data ELSE accepted
           /\ respects' = (respects /\ n < sdbuf.len /\ n <= rb_getfree_m(sdbuf))
           /\ UNCHANGED <<delivered, btnvars, loopvars, clock, sb, edges>>

\* a caller calls ringbuf_read(&sdbuf, dest, n)
CallRead(n) ==
    /\ LET r == ringbuf_read(sdbuf, n)
       IN  /\ sdbuf' = r.buf
           /\ last' = [op |-> "read", n |-> n, ret |-> r.ret, out |-> r.out]
           /\ delivered' = delivered \o r.out
           /\ UNCHANGED <<accepted, respects, btnvars, loopvars, clock, sb, edges>>

NextRB == \E n \in Sizes : CallWrite(n) \/ CallRead(n)

SpecRB == InitRB /\ [][NextRB]_vars

(***************************************************************************)
(* Properties of the ring buffer, checked under SpecRB.                    *)
(***************************************************************************)
IsPrefix(s, t) == Len(s) <= Len(t) /\ SubSeq(t, 1, Len(s)) = s

\* bytes accepted by writes and not yet handed out by reads
Unread == Len(accepted) - Len(delivered)

\* C1: FIFO. While every write respects n < capacity and n <= free space, the
\* bytes delivered by the reads are a prefix of the bytes accepted by the
\* writes, and when a read leaves the buffer empty both streams are equal.
C1_Fifo ==
    respects =>
        /\ IsPrefix(delivered, accepted)
        /\ (last.op = "read" /\ last.ret = 0 /\ rb_getused_m(sdbuf) = 0)
               => delivered = accepted

\* C2: occupancy plus free space is capacity - 1 in every reachable state.
C2_UsedPlusFree ==
    rb_getused_m(sdbuf) + rb_getfree_m(sdbuf) = sdbuf.len - 1

\* C3: head == tail always means empty: no accepted byte is then unread, the
\* buffer never holds more than capacity - 1 unread bytes, and no successful
\* write of n > 0 bytes leaves head equal to tail.
C3_HeadEqTailEmpty ==
    /\ sdbuf.head = sdbuf.tail => Unread = 0
    /\ Unread <= sdbuf.len - 1
    /\ (last.op = "write" /\ last.ret = 0 /\ last.n > 0)
           => sdbuf.head # sdbuf.tail

\* End-to-end scenario A at the real capacity: capacity 1024, a 600-byte write
\* succeeds, a second 600-byte write fails with overflow set and head at 600.
ScenarioA ==
    LET b0 == [buffer   |-> [i \in 0..1023 |-> 0],
               head     |-> 0,
               tail     |-> 0,
               overflow |-> 0,
               len      |-> 1024,
               mask     |-> 1023]
        w1 == ringbuf_write(b0, Labels(0, 600), 600)
        w2 == ringbuf_write(w1.buf, Labels(600, 600), 600)
    IN  /\ w1.ret = 0
        /\ w1.buf.head = 600
        /\ w1.buf.overflow = 0
        /\ w2.ret = 1
        /\ w2.buf.overflow = 1
        /\ w2.buf.head = 600
        /\ w2.buf.tail = 0
        /\ w2.buf.buffer = w1.buf.buffer

\* C4: a ringbuf_write that finds free space < n, with n <= capacity - 1,
\* returns failure, sets overflow, copies nothing and leaves head and tail
\* unchanged; scenario A holds at capacity 1024.
C4_NoPartialWrite ==
    [][(/\ last'.op = "write"
        /\ last'.n <= sdbuf.len - 1
        /\ rb_getfree_m(sdbuf) < last'.n)
          => (/\ last'.ret = 1
              /\ sdbuf'.overflow = 1
              /\ sdbuf'.head = sdbuf.head
              /\ sdbuf'.tail = sdbuf.tail
              /\ sdbuf'.buffer = sdbuf.buffer
              /\ accepted' = accepted
              /\ ScenarioA)]_vars

\* C4 witness: a write of n <= capacity - 1 bytes has just failed for lack of
\* space on a buffer that holds unread bytes.
C4_Witness ==
    /\ last.op = "write"
    /\ last.ret = 1
    /\ last.n <= sdbuf.len - 1
    /\ rb_getfree_m(sdbuf) < last.n
    /\ rb_getused_m(sdbuf) > 0
    /\ sdbuf.overflow = 1

\* C5: ringbuf_write or ringbuf_read with n >= capacity returns failure and
\* changes nothing: head, tail, overflow and the stored bytes are unchanged and
\* no byte is accepted or delivered.
C5_CallerError ==
    [][(last'.op \in {"write", "read"} /\ last'.n >= sdbuf.len)
          => (/\ last'.ret = 1
              /\ last'.out = <<>>
              /\ sdbuf' = sdbuf
              /\ accepted' = accepted
              /\ delivered' = delivered)]_vars

\* C5 witness: a read of n >= capacity bytes has just been rejected on a buffer
\* that holds bytes and has its overflow flag set.
C5_Witness ==
    /\ last.op = "read"
    /\ last.n >= sdbuf.len
    /\ last.ret = 1
    /\ rb_getused_m(sdbuf) > 0
    /\ sdbuf.overflow = 1

FR_OK == 0
FResults == {0, 1}

\* the failing results the card and the driver have returned so far
NFail == Cardinality({i \in DOMAIN fops : fops[i].res # 0})

\* the results the driver may return now
MayReturn == IF NFail < MaxFail THEN FResults ELSE {FR_OK}

\* the failing results f_mount has returned so far
NMountFail ==
    Cardinality({i \in DOMAIN fops : fops[i].op = "mount" /\ fops[i].res # 0})

\* the results f_mount may return now
MountMayReturn == IF NMountFail < MaxMountFail THEN FResults ELSE {FR_OK}

\* one call logged: the operation, its result, the bytes handed over
Call(op, res, data) == [op |-> op, res |-> res, data |-> data]

\* an unknown byte (memory the program never wrote, or wrote over)
Junk == Byte(0 - 1)

\* the n bytes at writebuf that f_write is handed
WriteData(n) == [k \in 1..n |-> IF k <= Len(writebuf) THEN writebuf[k] ELSE Junk]

\* the ticks by which the system tick counter moves between two events
SysSteps == {111}

\* the system tick counter counts on
ClockAdvance(d) ==
    /\ clock + d <= MaxClock
    /\ clock' = clock + d
    /\ UNCHANGED <<rbvars, btnvars, loopvars, sb, edges>>

(***************************************************************************)
(* The logging state machine: button S1 and the sampling timer.            *)
(***************************************************************************)
\* void logger_enable(void), void logger_disable(void): the new values of
\* logger_running and of the timer's mode control
logger_enable == [running |-> 1, timer |-> TRUE]
logger_disable == [running |-> 0, timer |-> FALSE]

\* the debounce test of PORT1_ISR
\* (uint32_t; the tick counter stays far below 2^32 within MaxClock, and time is
\* never ahead of it, so the difference does not wrap)
MutDebounceAtLeast(now, then) == (now - then) >= DebounceTicks
debounce_ok(now, then) == (now - then) > DebounceTicks

\* interrupt(PORT1_VECTOR) PORT1_ISR(void), on an edge of button S1
PORT1_ISR ==
    IF debounce_ok(clock, time)
    THEN LET t == IF logger_running # 0 THEN logger_disable ELSE logger_enable
         IN  /\ time' = clock
             /\ logger_running' = t.running
             /\ timer_on' = t.timer
    ELSE UNCHANGED btnvars

\* an edge of button S1 arrives while the system runs
ButtonEdge ==
    /\ PORT1_ISR
    /\ UNCHANGED <<rbvars, loopvars, clock, sb, edges>>

\* an edge of button S1, recorded: its tick, the last-toggle time it found and
\* whether it toggled logger_running; the last two edges are kept
ButtonEdgeLogged ==
    /\ PORT1_ISR
    /\ edges' = Append(IF Len(edges) = 2 THEN Tail(edges) ELSE edges,
                       [t       |-> clock,
                        prev    |-> time,
                        toggled |-> logger_running' # logger_running])
    /\ UNCHANGED <<rbvars, loopvars, clock, sb>>

(***************************************************************************)
(* The sample producer.                                                    *)
(***************************************************************************)
\* the bytes of the SampleBuffer holding sample number k
SampleBytes(k) == [i \in 1..SampleSize |-> Byte(k * SampleSize + i)]

\* TIMER1_A0_ISR: if(file_open)
MutPushAlways(fo) == TRUE
tick_pushes(fo) == fo # 0

\* interrupt(TIMER1_A0_VECTOR) TIMER1_A0_ISR(void)
TIMER1_A0_ISR ==
    /\ timer_on
    /\ sb < MaxSamples
    /\ IF tick_pushes(file_open)
       THEN LET r == ringbuf_write(sdbuf, SampleBytes(sb), SampleSize)
            IN  /\ sdbuf' = r.buf
                /\ last' = [op |-> "write", n |-> SampleSize, ret |-> r.ret,
                            out |-> <<>>]
                /\ accepted' = IF r.ret = 0 THEN accepted \o SampleBytes(sb)
                               ELSE accepted
                /\ respects' = (/\ respects
                                /\ SampleSize < sdbuf.len
                                /\ SampleSize <= rb_getfree_m(sdbuf))
                /\ UNCHANGED delivered
       ELSE UNCHANGED rbvars
    /\ sb' = sb + 1
    /\ UNCHANGED <<btnvars, loopvars, clock, edges>>

(***************************************************************************)
(* The storage writer: logger_init from eint() on, then sd_setup.          *)
(***************************************************************************)
\* the state when logger_init has enabled the interrupts
Init ==
    /\ sdbuf = [buffer   |-> [i \in 0..(SD_RINGBUF_LEN - 1) |-> 0],
                head     |-> 0,
                tail     |-> 0,
                overflow |-> 0,
                len      |-> 0,
                mask     |-> 0]
    /\ last = [op |-> "init", n |-> 0, ret |-> 0, out |-> <<>>]
    /\ accepted = <<>>
    /\ delivered = <<>>
    /\ respects = TRUE
    /\ writebuf = [i \in 1..BlockSize |-> 0]
    /\ logger_running = 0
    /\ file_open = 0
    /\ time = 0
    /\ clock \in {0, LcdPeriod}
    /\ timer_on = FALSE
    /\ sb = 0
    /\ pc = "init_running"
    /\ fr = 0
    /\ rn = 0
    /\ wn = 0
    /\ ctx = "none"
    /\ fops = <<>>
    /\ reports = <<>>
    /\ lcd = ""
    /\ edges = <<>>

\* what the loop leaves alone unless it says otherwise
LoopFrame == UNCHANGED <<btnvars, clock, sb, edges, last, accepted, respects>>

\* void update_lcd(RingBuffer *buf): monitor buffer overflow
update_lcd(b) == IF b.overflow # 0 THEN "Buffer overflow" ELSE lcd

\* logger_init: the logger should start in its OFF state
logger_init_running ==
    /\ pc = "init_running"
    /\ logger_running' = 0
    /\ pc' = "rb_init"
    /\ UNCHANGED <<rbvars, time, timer_on, clock, sb, edges>>
    /\ UNCHANGED <<writebuf, file_open, fr, rn, wn, ctx, fops, reports, lcd>>

\* sd_setup: initialise the ring buffer for SD transfers
sd_setup_rb_init ==
    /\ pc = "rb_init"
    /\ sdbuf' = sdbuf_init
    /\ pc' = "detect"
    /\ LoopFrame
    /\ UNCHANGED <<delivered, writebuf, file_open, fr, rn, wn, ctx, fops,
                   reports, lcd>>

\* sd_setup: wait for an SD card to be inserted
sd_setup_detect ==
    /\ pc = "detect"
    /\ \E res \in MayReturn :
          /\ fops' = Append(fops, Call("detect", res, <<>>))
          /\ IF res = 0
             THEN /\ lcd' = ""
                  /\ pc' = "mount"
                  /\ UNCHANGED reports
             ELSE /\ lcd' = "Insert SD Card"
                  /\ reports' = Append(reports, "Insert SD Card")
                  /\ UNCHANGED pc
    /\ LoopFrame
    /\ UNCHANGED <<sdbuf, delivered, writebuf, file_open, fr, rn, wn, ctx>>

\* sd_setup: fr = f_mount(0, &FatFs)
sd_setup_mount ==
    /\ pc = "mount"
    /\ \E res \in MountMayReturn :
          /\ fr' = res
          /\ fops' = Append(fops, Call("mount", res, <<>>))
    /\ pc' = "mount_loop"
    /\ LoopFrame
    /\ UNCHANGED <<sdbuf, delivered, writebuf, file_open, rn, wn, ctx, reports,
                   lcd>>

\* sd_setup: the condition of the mount loop, while( fr != FR_OK )
MutMountOnce(f) == FALSE
mount_again(f) == f # FR_OK

\* sd_setup: while( fr != FR_OK ) report and mount again
sd_setup_mount_loop ==
    /\ pc = "mount_loop"
    /\ IF mount_again(fr)
       THEN /\ reports' = Append(reports, "Mount fail")
            /\ \E res \in MountMayReturn :
                  /\ fr' = res
                  /\ fops' = Append(fops, Call("mount", res, <<>>))
            /\ UNCHANGED pc
       ELSE /\ pc' = "lcd_first"
            /\ UNCHANGED <<fr, fops, reports>>
    /\ LoopFrame
    /\ UNCHANGED <<sdbuf, delivered, writebuf, file_open, rn, wn, ctx, lcd>>

\* sd_setup: now we can begin updating the LCD
sd_setup_lcd_first ==
    /\ pc = "lcd_first"
    /\ lcd' = update_lcd(sdbuf)
    /\ pc' = "chk_open"
    /\ LoopFrame
    /\ UNCHANGED <<sdbuf, delivered, writebuf, file_open, fr, rn, wn, ctx,
                   fops, reports>>

\* sd_setup: if we just started logging then open the file
sd_setup_chk_open ==
    /\ pc = "chk_open"
    /\ pc' = IF logger_running # 0 /\ file_open = 0 THEN "open" ELSE "chk_close"
    /\ LoopFrame
    /\ UNCHANGED <<sdbuf, delivered, writebuf, file_open, fr, rn, wn, ctx,
                   fops, reports, lcd>>

\* sd_setup: fr = f_open(&fil, "data.log", FA_READ | FA_WRITE | FA_CREATE_ALWAYS)
sd_setup_open ==
    /\ pc = "open"
    /\ \E res \in MayReturn :
          /\ fr' = res
          /\ fops' = Append(fops, Call("open", res, <<>>))
    /\ pc' = "open_loop"
    /\ LoopFrame
    /\ UNCHANGED <<sdbuf, delivered, writebuf, file_open, rn, wn, ctx, reports,
                   lcd>>

\* sd_setup: while( fr != FR_OK ) report and open again; then clear the
\* overflow flag and the debug text and set file_open
sd_setup_open_loop ==
    /\ pc = "open_loop"
    /\ IF fr # FR_OK
       THEN /\ reports' = Append(reports, "Open fail")
            /\ \E res \in MayReturn :
                  /\ fr' = res
                  /\ fops' = Append(fops, Call("open", res, <<>>))
            /\ UNCHANGED <<pc, sdbuf, lcd, file_open>>
       ELSE /\ sdbuf' = [sdbuf EXCEPT !.overflow = 0]
            /\ lcd' = ""
            /\ file_open' = 1
            /\ pc' = "chk_close"
            /\ UNCHANGED <<fr, fops, reports>>
    /\ LoopFrame
    /\ UNCHANGED <<delivered, writebuf, rn, wn, ctx>>

\* sd_setup: if we just stopped logging then close the file
sd_setup_chk_close ==
    /\ pc = "chk_close"
    /\ pc' = IF logger_running = 0 /\ file_open # 0 THEN "flush" ELSE "chk_drain"
    /\ LoopFrame
    /\ UNCHANGED <<sdbuf, delivered, writebuf, file_open, fr, rn, wn, ctx,
                   fops, reports, lcd>>

\* sd_setup: sd_write(sdbuf, writebuf, &fil, rb_getused_m(sdbuf)), the call
sd_setup_flush ==
    /\ pc = "flush"
    /\ wn' = U16(rb_getused_m(sdbuf))
    /\ rn' = U16(rb_getused_m(sdbuf))
    /\ ctx' = "flush"
    /\ pc' = "rd_chk"
    /\ LoopFrame
    /\ UNCHANGED <<sdbuf, delivered, writebuf, file_open, fr, fops, reports, lcd>>

\* sd_setup: (rb_getused_m(sdbuf) > 512) ...
sd_setup_chk_drain ==
    /\ pc = "chk_drain"
    /\ pc' = IF rb_getused_m(sdbuf) > BlockSize THEN "chk_flags" ELSE "chk_lcd"
    /\ LoopFrame
    /\ UNCHANGED <<sdbuf, delivered, writebuf, file_open, fr, rn, wn, ctx,
                   fops, reports, lcd>>

\* sd_setup: ... && file_open && logger_running, then
\* sd_write(sdbuf, writebuf, &fil, 512), the call
sd_setup_chk_flags ==
    /\ pc = "chk_flags"
    /\ IF file_open # 0 /\ logger_running # 0
       THEN /\ wn' = BlockSize
            /\ rn' = BlockSize
            /\ ctx' = "drain"
            /\ pc' = "rd_chk"
       ELSE /\ pc' = "chk_lcd"
            /\ UNCHANGED <<wn, rn, ctx>>
    /\ LoopFrame
    /\ UNCHANGED <<sdbuf, delivered, writebuf, file_open, fr, fops, reports, lcd>>

\* what ringbuf_read, called by the loop, leaves alone
ReadFrame ==
    UNCHANGED <<btnvars, clock, sb, edges, accepted, respects, file_open, fr,
                wn, ctx, fops, reports, lcd>>

\* ringbuf_read in sd_write: the tests n >= buf->len and n > rb_getused_m(buf)
sd_write_rd_chk ==
    /\ pc = "rd_chk"
    /\ IF rn >= sdbuf.len
       THEN /\ pc' = "fwrite"
            /\ last' = [op |-> "read", n |-> rn, ret |-> 1, out |-> <<>>]
       ELSE /\ pc' = IF rn > rb_getused_m(sdbuf) THEN "rd_clamp" ELSE "rd_copy"
            /\ UNCHANGED last
    /\ ReadFrame
    /\ UNCHANGED <<sdbuf, delivered, writebuf, rn>>

\* ringbuf_read in sd_write: n = rb_getused_m(buf)
sd_write_rd_clamp ==
    /\ pc = "rd_clamp"
    /\ rn' = U16(rb_getused_m(sdbuf))
    /\ pc' = "rd_copy"
    /\ ReadFrame
    /\ UNCHANGED <<sdbuf, delivered, writebuf, last>>

\* the memory at writebuf after memcpy has put the bytes out there: a copy of
\* more than BlockSize bytes runs past the array, and what f_write finds there
\* afterwards is the copied bytes or not (clobbered)
scratch_after(out, clobbered) ==
    LET n    == Len(out)
        size == IF n > Len(writebuf) THEN n ELSE Len(writebuf)
    IN  [k \in 1..size |->
            IF k <= n
            THEN (IF clobbered /\ k > BlockSize THEN Junk ELSE out[k])
            ELSE writebuf[k]]

\* ringbuf_read in sd_write: the copy into writebuf, tail moves on
sd_write_rd_copy ==
    /\ pc = "rd_copy"
    /\ LET r == rb_read_copy(sdbuf, rn)
       IN  /\ sdbuf' = r.buf
           /\ delivered' = delivered \o r.out
           /\ last' = [op |-> "read", n |-> wn, ret |-> 0, out |-> r.out]
           /\ \E clobbered \in (IF rn > BlockSize THEN BOOLEAN ELSE {FALSE}) :
                 writebuf' = scratch_after(r.out, clobbered)
    /\ pc' = "fwrite"
    /\ ReadFrame
    /\ UNCHANGED rn

\* sd_write: fr = f_write(fil, writebuf, n, &bw), reported when it fails
sd_write_fwrite ==
    /\ pc = "fwrite"
    /\ \E res \in MayReturn :
          /\ fr' = res
          /\ fops' = Append(fops, Call("write", res, WriteData(wn)))
          /\ IF res # 0
             THEN /\ reports' = Append(reports, "write fail")
                  /\ lcd' = "write fail"
             ELSE UNCHANGED <<reports, lcd>>
    /\ pc' = IF ctx = "flush" THEN "sync" ELSE "chk_lcd"
    /\ LoopFrame
    /\ UNCHANGED <<sdbuf, delivered, writebuf, file_open, rn, wn, ctx>>

\* sd_setup: if(f_sync(&fil)) lcd_debug("sync fail")
sd_setup_sync ==
    /\ pc = "sync"
    /\ \E res \in MayReturn :
          /\ fops' = Append(fops, Call("sync", res, <<>>))
          /\ IF res # 0
             THEN /\ reports' = Append(reports, "sync fail")
                  /\ lcd' = "sync fail"
             ELSE UNCHANGED <<reports, lcd>>
    /\ pc' = "close"
    /\ LoopFrame
    /\ UNCHANGED <<sdbuf, delivered, writebuf, file_open, fr, rn, wn, ctx>>

\* sd_setup: fr = f_close(&fil)
sd_setup_close ==
    /\ pc = "close"
    /\ \E res \in MayReturn :
          /\ fr' = res
          /\ fops' = Append(fops, Call("close", res, <<>>))
    /\ pc' = "close_loop"
    /\ LoopFrame
    /\ UNCHANGED <<sdbuf, delivered, writebuf, file_open, rn, wn, ctx, reports,
                   lcd>>

\* sd_setup: the condition of the close loop, while(fr != FR_OK)
MutCloseOnce(f) == FALSE
close_again(f) == f # FR_OK

\* sd_setup: while(fr != FR_OK) report and close again; then file_open = 0
sd_setup_close_loop ==
    /\ pc = "close_loop"
    /\ IF close_again(fr)
       THEN /\ reports' = Append(reports, "close fail")
            /\ lcd' = "close fail"
            /\ \E res \in MayReturn :
                  /\ fr' = res
                  /\ fops' = Append(fops, Call("close", res, <<>>))
            /\ UNCHANGED <<pc, file_open>>
       ELSE /\ file_open' = 0
            /\ pc' = "chk_drain"
            /\ UNCHANGED <<fr, fops, reports, lcd>>
    /\ LoopFrame
    /\ UNCHANGED <<sdbuf, delivered, writebuf, rn, wn, ctx>>

\* sd_setup: update the LCD when (clock_time() % 333) == 0
sd_setup_chk_lcd ==
    /\ pc = "chk_lcd"
    /\ lcd' = IF clock % LcdPeriod = 0 THEN update_lcd(sdbuf) ELSE lcd
    /\ pc' = "chk_open"
    /\ LoopFrame
    /\ UNCHANGED <<sdbuf, delivered, writebuf, file_open, fr, rn, wn, ctx,
                   fops, reports>>

\* one step of the supervisory loop
Loop ==
    \/ logger_init_running
    \/ sd_setup_rb_init
    \/ sd_setup_detect
    \/ sd_setup_mount
    \/ sd_setup_mount_loop
    \/ sd_setup_lcd_first
    \/ sd_setup_chk_open
    \/ sd_setup_open
    \/ sd_setup_open_loop
    \/ sd_setup_chk_close
    \/ sd_setup_flush
    \/ sd_write_rd_chk
    \/ sd_write_rd_clamp
    \/ sd_write_rd_copy
    \/ sd_write_fwrite
    \/ sd_setup_sync
    \/ sd_setup_close
    \/ sd_setup_close_loop
    \/ sd_setup_chk_drain
    \/ sd_setup_chk_flags
    \/ sd_setup_chk_lcd

Next ==
    \/ Loop
    \/ TIMER1_A0_ISR
    \/ ButtonEdge
    \/ \E d \in SysSteps : ClockAdvance(d)

Spec == Init /\ [][Next]_vars

(***************************************************************************)
(* The button alone, on a finer clock (SpecBtn).                           *)
(***************************************************************************)
\* the ticks between two events at the button: elapsed times below, at and
\* above the debounce interval are sums of these
BtnSteps == {DebounceTicks \div 2, DebounceTicks \div 2 + 1}

NextBtn ==
    \/ ButtonEdgeLogged
    \/ \E d \in BtnSteps : ClockAdvance(d)

SpecBtn == Init /\ [][NextBtn]_vars

(***************************************************************************)
(* Properties of the system, checked under Spec and SpecBtn.               *)
(***************************************************************************)
\* the step is one of the loop (the loop moves on, or retries where it stands)
LoopMoves == pc' # pc

\* the step is a timer tick
TickStep == sb' = sb + 1

\* C7: the overflow flag is sticky. It goes from 0 to 1 only in a tick whose
\* ringbuf_write fails for lack of free space, and from 1 to 0 only when the
\* loop has opened the file and sets file_open; a successful write, a read of
\* the loop (drain or flush) and a status refresh leave it as it is.
C7_OverflowSticky ==
    [][/\ (sdbuf.overflow = 0 /\ sdbuf'.overflow = 1)
            => (/\ TickStep
                /\ file_open # 0
                /\ last'.op = "write"
                /\ last'.ret = 1
                /\ SampleSize < sdbuf.len
                /\ rb_getfree_m(sdbuf) < SampleSize)
       /\ (sdbuf.overflow = 1 /\ sdbuf'.overflow = 0)
            => (/\ pc = "open_loop"
                /\ fr = FR_OK
                /\ fops[Len(fops)] = Call("open", FR_OK, <<>>)
                /\ file_open = 0
                /\ file_open' = 1)
       /\ (TickStep /\ accepted' # accepted)
            => sdbuf'.overflow = sdbuf.overflow
       /\ (LoopMoves /\ pc \in {"rd_chk", "rd_clamp", "rd_copy", "fwrite",
                                "lcd_first", "chk_lcd"})
            => sdbuf'.overflow = sdbuf.overflow]_vars

\* C7 witness: the flag is still set after a later write has succeeded and the
\* loop has read from the buffer.
C7_Witness ==
    /\ sdbuf.overflow = 1
    /\ last.op = "write"
    /\ last.ret = 0
    /\ delivered # <<>>
    /\ file_open = 1

\* C8: of two button-S1 edges less than the debounce interval apart, the first
\* not itself within the interval of an accepted toggle, exactly one toggles
\* logger_running, whatever the tick of the first edge (start-up included,
\* where the last-toggle time still is 0).
C8_Debounce ==
    (/\ Len(edges) = 2
     /\ edges[2].t - edges[1].t < DebounceTicks
     /\ (edges[1].prev = 0 \/ edges[1].t - edges[1].prev >= DebounceTicks))
        => (edges[1].toggled # edges[2].toggled)

\* the bytes the loop's last ringbuf_read took out of the buffer
Removed == SubSeq(delivered, Len(delivered) - rn + 1, Len(delivered))

\* C9: a drain step is entered with the file open, removes exactly one block
\* (512 bytes) from the ring buffer and hands exactly those bytes to the
\* storage write, whatever ticks arrive between the occupancy test and the
\* read.
C9_DrainStep ==
    (ctx = "drain" /\ pc = "fwrite")
        => (/\ file_open # 0
            /\ wn = BlockSize
            /\ rn = BlockSize
            /\ WriteData(wn) = Removed)

\* the storage call made last
LastOp == fops[Len(fops)]

\* C10: close on stop. The flush hands one storage write exactly the bytes that
\* remained in the ring buffer, then comes the sync, then close (again after
\* each failure); no write follows the sync, and file_open is 0 only when the
\* file opened last has been closed with success.
C10_CloseOnStop ==
    /\ pc = "sync"
          => (/\ LastOp.op = "write"
              /\ rn = wn
              /\ LastOp.data = Removed)
    /\ pc = "close" => LastOp.op = "sync"
    /\ \A i \in 1..(Len(fops) - 1) :
          /\ fops[i].op = "sync" => fops[i + 1].op = "close"
          /\ (fops[i].op = "close" /\ fops[i].res # FR_OK)
                => fops[i + 1].op = "close"
    /\ \A i \in 1..Len(fops) :
          (fops[i].op = "sync")
             => (i > 1 /\ fops[i - 1].op = "write")
    /\ \A i \in 1..Len(fops) :
          (fops[i].op = "close")
             => (i > 1 /\ fops[i - 1].op \in {"sync", "close"})
    /\ (file_open = 0 /\ pc # "open_loop")
          => \A i \in 1..Len(fops) :
                (fops[i].op = "open" /\ fops[i].res = FR_OK)
                   => \E j \in (i + 1)..Len(fops) :
                         fops[j].op = "close" /\ fops[j].res = FR_OK

(***************************************************************************)
(* Start-up: the mount.                                                    *)
(***************************************************************************)
\* the calls of one operation made so far, in order
CallsOf(op) == SelectSeq(fops, LAMBDA c : c.op = op)

\* the reports of one text sent so far
ReportsOf(text) == SelectSeq(reports, LAMBDA r : r = text)

\* the places of sd_setup before f_mount has returned FR_OK and been tested
BeforeMounted == {"init_running", "rb_init", "detect", "mount", "mount_loop"}

\* the calls of f_mount that failed
MountFails == SelectSeq(CallsOf("mount"), LAMBDA c : c.res # FR_OK)

\* C11: mount retry. When f_mount has failed k times and then succeeded there
\* are exactly k "Mount fail" reports and k + 1 calls of f_mount, the last one
\* the only success, and nothing else was reported since the card was found;
\* until then the loop has made no other storage call and stands before its
\* first status refresh.
C11_MountRetry ==
    LET mounts == CallsOf("mount")
        k      == Len(MountFails)
        ok     == Len(mounts) > 0 /\ mounts[Len(mounts)].res = FR_OK
    IN  /\ \A i \in 1..(Len(mounts) - 1) : mounts[i].res # FR_OK
        /\ (pc \notin BeforeMounted)
              => (/\ ok
                  /\ Len(mounts) = k + 1
                  /\ Len(ReportsOf("Mount fail")) = k)
        /\ (pc = "lcd_first")
              => Len(reports) = k + Len(ReportsOf("Insert SD Card"))
        /\ (pc = "mount_loop")
              => Len(ReportsOf("Mount fail")) = Len(mounts) - 1
        /\ (~ok \/ pc = "mount_loop")
              => (/\ pc \in BeforeMounted
                  /\ file_open = 0
                  /\ \A i \in 1..Len(fops) : fops[i].op \in {"detect", "mount"})

\* C11 witness: f_mount has failed three times and then succeeded, and the
\* loop has gone on to open the file.
C11_Witness ==
    /\ Len(MountFails) = 3
    /\ Len(CallsOf("mount")) = 4
    /\ Len(ReportsOf("Mount fail")) = 3
    /\ file_open = 1

(***************************************************************************)
(* The stream on the storage.                                              *)
(***************************************************************************)
\* the bytes of a sequence of storage calls, concatenated in call order
RECURSIVE DataOf(_)
DataOf(calls) ==
    IF calls = <<>> THEN <<>> ELSE Head(calls).data \o DataOf(Tail(calls))

\* the bytes handed to f_write so far, by every call and by the successful ones
Handed == DataOf(CallsOf("write"))
Written == DataOf(SelectSeq(CallsOf("write"), LAMBDA c : c.res = FR_OK))

\* s is t with some elements left out
RECURSIVE IsSubSeq(_, _)
IsSubSeq(s, t) ==
    IF s = <<>> THEN TRUE
    ELSE IF t = <<>> THEN FALSE
    ELSE IF Head(s) = Head(t) THEN IsSubSeq(Tail(s), Tail(t))
    ELSE IsSubSeq(s, Tail(t))

\* C12: the stream on the storage. The bytes handed to the storage writes, in
\* write order, are the bytes of the records the ring buffer accepted from the
\* timer ISR, in order and each once (so the successful writes hold them with
\* only the failed writes left out), and every write is handed exactly the
\* bytes its ringbuf_read took out of the ring buffer, under every
\* interleaving of ticks with the loop.
C12_StreamOrder ==
    /\ IsPrefix(Handed, accepted)
    /\ IsSubSeq(Written, accepted)
    /\ (pc # "fwrite") => Handed = delivered
    /\ (pc = "fwrite") => Handed \o Removed = delivered

\* the unread bytes in the ring buffer, oldest first
Buffered ==
    [k \in 1..rb_getused_m(sdbuf) |->
        sdbuf.buffer[(sdbuf.tail + k - 1) % sdbuf.len]]

\* the bytes ringbuf_read has taken out for a storage write not yet made
InTransit == IF pc = "fwrite" THEN Removed ELSE <<>>

\* the calls of f_open that succeeded
Opens == SelectSeq(CallsOf("open"), LAMBDA c : c.res = FR_OK)

\* C13: data loss is always indicated. While the overflow flag has not been
\* set since the first open and no storage-write failure has been reported,
\* no sample the timer ISR pushed is lost: every byte the ring buffer accepted
\* has been handed to a successful storage write, is on its way to one, or is
\* still unread in the buffer (a rejected push sets the flag, C4).
C13_LossIndicated ==
    (/\ Len(Opens) <= 1
     /\ sdbuf.overflow = 0
     /\ ReportsOf("write fail") = <<>>)
        => Written \o InTransit \o Buffered = accepted

(***************************************************************************)
(* The data file "data.log" as the storage calls leave it.                 *)
(***************************************************************************)
\* the mode flags of the f_open call in sd_setup
OpenMode == {"FA_READ", "FA_WRITE", "FA_CREATE_ALWAYS"}

\* f_open: FA_CREATE_ALWAYS creates a new file and truncates an existing one;
\* the read/write pointer of the opened file is at its start
f_open(file, mode) ==
    [content |-> IF "FA_CREATE_ALWAYS" \in mode THEN <<>> ELSE file.content,
     ptr     |-> 0]

\* f_write: the bytes go to the file at the read/write pointer
f_write(file, data) ==
    LET n    == Len(data)
        size == IF file.ptr + n > Len(file.content)
                THEN file.ptr + n ELSE Len(file.content)
    IN  [content |-> [k \in 1..size |->
                        IF file.ptr < k /\ k <= file.ptr + n
                        THEN data[k - file.ptr] ELSE file.content[k]],
         ptr     |-> file.ptr + n]

\* the file after a sequence of storage calls (failed calls leave it as it is)
RECURSIVE FileAfter(_, _)
FileAfter(calls, file) ==
    IF calls = <<>> THEN file
    ELSE LET c == Head(calls)
             f == IF c.res # FR_OK THEN file
                  ELSE IF c.op = "open" THEN f_open(file, OpenMode)
                  ELSE IF c.op = "write" THEN f_write(file, c.data)
                  ELSE file
         IN  FileAfter(Tail(calls), f)

\* the data file now
DataLog == FileAfter(fops, [content |-> <<>>, ptr |-> 0])

\* C14: the data file is a single append target. Every byte a successful
\* storage write has put into it, in this session or an earlier one, is still
\* there, in write order: a later open discards nothing.
C14_AppendTarget == DataLog.content = Written

(***************************************************************************)
(* Sessions: the open, the button and the timer.                           *)
(***************************************************************************)
\* C15: reset at open. In the step that sets file_open after a successful
\* open the ring buffer is reset: head, tail and overflow are 0 afterwards.
C15_ResetAtOpen ==
    [][(file_open = 0 /\ file_open' = 1)
          => (/\ sdbuf'.head = 0
              /\ sdbuf'.tail = 0
              /\ sdbuf'.overflow = 0)]_vars

\* the button-S1 edge handled last
LastEdge == edges[Len(edges)]

\* the last edge came after an accepted toggle (the last-toggle time is 0
\* until the first one: no toggle is accepted at tick 0)
AfterToggle == Len(edges) > 0 /\ LastEdge.prev # 0

\* C16 as claimed: an edge is ignored, logger_running and the last-toggle time
\* unchanged, exactly when fewer than 250 ticks have passed since the last
\* accepted toggle; at 250 ticks or more it flips logger_running and the
\* last-toggle time becomes the current tick.
C16_Threshold ==
    AfterToggle
        => (/\ LastEdge.toggled <=> (LastEdge.t - LastEdge.prev >= DebounceTicks)
            /\ time = IF LastEdge.toggled THEN LastEdge.t ELSE LastEdge.prev)

\* C16 as amended: an edge is ignored, logger_running and the last-toggle time
\* unchanged, exactly when at most 250 ticks have passed since the last
\* accepted toggle; at more than 250 ticks it flips logger_running and the
\* last-toggle time becomes the current tick.
C16_ThresholdStrict ==
    AfterToggle
        => (/\ LastEdge.toggled <=> (LastEdge.t - LastEdge.prev > DebounceTicks)
            /\ time = IF LastEdge.toggled THEN LastEdge.t ELSE LastEdge.prev)

\* C16 witness: an edge exactly 250 ticks after an accepted toggle has been
\* ignored, and the edge before it, more than 250 ticks after the toggle
\* before, was accepted.
C16_Witness ==
    /\ Len(edges) = 2
    /\ AfterToggle
    /\ LastEdge.t - LastEdge.prev = DebounceTicks
    /\ ~LastEdge.toggled
    /\ edges[1].toggled
    /\ edges[1].prev # 0
    /\ logger_running = 0

\* C17: timer gating. Outside the interrupt handlers, from the enabling of the
\* interrupts in logger_init onward, the sampling timer counts exactly when
\* logger_running is set.
C17_TimerGating == timer_on <=> (logger_running # 0)

\* the step is one of PORT1_ISR that accepts the edge
ToggleStep == time' = clock /\ pc' = pc /\ sb' = sb

\* C18: single-writer flags. logger_running changes only in a step of the
\* button handler, never in one of the main context (logger_init, the loop)
\* or of the timer ISR; file_open changes only in a step of the loop; a timer
\* tick leaves tail (and len, mask) as they are, and the loop's ringbuf_read
\* leaves head and the stored bytes as they are.
C18_SingleWriter ==
    [][/\ (logger_running' # logger_running) => ToggleStep
       /\ (file_open' # file_open) => (LoopMoves /\ ~TickStep /\ time' = time)
       /\ TickStep
            => (/\ sdbuf'.tail = sdbuf.tail
                /\ sdbuf'.len = sdbuf.len
                /\ sdbuf'.mask = sdbuf.mask
                /\ file_open' = file_open
                /\ logger_running' = logger_running)
       /\ (LoopMoves /\ pc \in {"rd_chk", "rd_clamp", "rd_copy"})
            => (/\ sdbuf'.head = sdbuf.head
                /\ sdbuf'.buffer = sdbuf.buffer
                /\ sdbuf'.overflow = sdbuf.overflow)]_vars

WriteFails == pc = "fwrite" /\ pc' # "fwrite" /\ fr' # FR_OK

\* no block whose write failed is handed to a later write
NoRewrite(calls) ==
    \A i, j \in DOMAIN calls :
        (/\ i < j
         /\ calls[i].op = "write"
         /\ calls[i].res # FR_OK
         /\ calls[i].data # <<>>
         /\ calls[j].op = "write")
            => calls[j].data # calls[i].data

\* C20: a failing storage write is reported and not tried again. The step in
\* which f_write fails sends one report to the status sink, makes no second
\* call, leaves the ring buffer (tail included), file_open and logger_running
\* as they are and goes on in the loop (to the status refresh after a drain,
\* to the sync after the flush); and the block of a failed write is never
\* handed to a later write.
C20_WriteFailure ==
    [][/\ WriteFails
            => (/\ reports' = Append(reports, "write fail")
                /\ Len(fops') = Len(fops) + 1
                /\ sdbuf' = sdbuf
                /\ delivered' = delivered
                /\ file_open' = file_open
                /\ logger_running' = logger_running
                /\ pc' = IF ctx = "drain" THEN "chk_lcd" ELSE "sync")
       /\ NoRewrite(fops')]_vars

(***************************************************************************)
(* The close sequence, with the loop running on (SpecLive).                *)
(***************************************************************************)
\* the state when sd_setup enters its while(1): the card found and mounted at
\* the first try, the ring buffer initialised, logging off
InitLoop ==
    /\ sdbuf = sdbuf_init
    /\ last = [op |-> "init", n |-> 0, ret |-> 0, out |-> <<>>]
    /\ accepted = <<>>
    /\ delivered = <<>>
    /\ respects = TRUE
    /\ writebuf = [i \in 1..BlockSize |-> 0]
    /\ logger_running = 0
    /\ file_open = 0
    /\ time = 0
    /\ clock \in {0, LcdPeriod}
    /\ timer_on = FALSE
    /\ sb = 0
    /\ pc = "chk_open"
    /\ fr = FR_OK
    /\ rn = 0
    /\ wn = 0
    /\ ctx = "none"
    /\ fops = <<Call("detect", FR_OK, <<>>), Call("mount", FR_OK, <<>>)>>
    /\ reports = <<>>
    /\ lcd = ""
    /\ edges = <<>>

\* one step of the body of while(1) in sd_setup
LoopBody ==
    \/ sd_setup_chk_open
    \/ sd_setup_open
    \/ sd_setup_open_loop
    \/ sd_setup_chk_close
    \/ sd_setup_flush
    \/ sd_write_rd_chk
    \/ sd_write_rd_clamp
    \/ sd_write_rd_copy
    \/ sd_write_fwrite
    \/ sd_setup_sync
    \/ sd_setup_close
    \/ sd_setup_close_loop
    \/ sd_setup_chk_drain
    \/ sd_setup_chk_flags
    \/ sd_setup_chk_lcd

NextLive ==
    \/ LoopBody
    \/ TIMER1_A0_ISR
    \/ ButtonEdge
    \/ \E d \in SysSteps : ClockAdvance(d)

\* the main context runs whenever no interrupt handler does: the loop is never
\* held up for ever
SpecLive == InitLoop /\ [][NextLive]_vars /\ WF_vars(LoopBody)

\* the loop stands in the close sequence: the flush with its sd_write, the
\* sync, the close and its retries
InClose ==
    \/ pc \in {"flush", "sync", "close", "close_loop"}
    \/ (pc \in {"rd_chk", "rd_clamp", "rd_copy", "fwrite"} /\ ctx = "flush")

\* C21: close liveness. Once the loop has seen logger_running clear with
\* file_open set, file_open becomes 0 in the end, the close failing only
\* finitely often; until then the loop stays in the close sequence, reporting
\* and calling f_close again after each failure, it makes no call of f_open
\* and no drain, and it clears file_open only after a close that succeeded.
C21_CloseLiveness ==
    /\ (pc = "flush") ~> (file_open = 0)
    /\ [][/\ (InClose /\ LoopMoves) => (InClose' \/ file_open' = 0)
          /\ (InClose /\ fops' # fops)
               => (/\ Len(fops') = Len(fops) + 1
                   /\ fops'[Len(fops')].op \in {"write", "sync", "close"}
                   /\ (fops'[Len(fops')].op = "write") => pc = "fwrite")
          /\ (pc = "close_loop" /\ fr # FR_OK)
               => (fops' # fops
                     => (/\ fops'[Len(fops')].op = "close"
                         /\ reports' = Append(reports, "close fail")
                         /\ file_open' = file_open))
          /\ (file_open # 0 /\ file_open' = 0)
               => (/\ pc = "close_loop"
                   /\ LastOp = Call("close", FR_OK, <<>>))]_vars

\* C21 witness: the close has failed, was reported and tried again, and after
\* its success file_open is 0.
C21_Witness ==
    /\ file_open = 0
    /\ Len(fops) > 1
    /\ LastOp = Call("close", FR_OK, <<>>)
    /\ fops[Len(fops) - 1].op = "close"
    /\ fops[Len(fops) - 1].res # FR_OK
    /\ ReportsOf("close fail") # <<>>

(***************************************************************************)
(* The scratch buffer and the end of a session.                            *)
(***************************************************************************)
\* C22: the scratch-buffer bound. Every ringbuf_read of the storage writer,
\* the drain of a block and the flush on stop, copies at most 512 bytes (one
\* block) into writebuf, so no byte is put past the end of the array.
C22_ScratchBound ==
    /\ (pc = "rd_copy") => rn <= BlockSize
    /\ (pc = "fwrite") => Len(last.out) <= BlockSize
    /\ Len(writebuf) <= BlockSize

\* the flush has taken the session's last bytes out and the file is not yet
\* closed
AfterFlush ==
    \/ pc \in {"sync", "close", "close_loop"}
    \/ (pc = "fwrite" /\ ctx = "flush")

\* C23: session isolation. When file_open goes from 1 to 0 the ring buffer is
\* empty; no tick pushes a sample between the flush of a session and the open
\* of the next, also when a debounced edge restarts logging while the loop is
\* still in the close sequence; and when file_open is set again the buffer
\* holds no bytes.
C23_SessionIsolation ==
    [][/\ (file_open # 0 /\ file_open' = 0) => rb_getused_m(sdbuf') = 0
       /\ (TickStep /\ (AfterFlush \/ file_open = 0))
            => (accepted' = accepted /\ sdbuf' = sdbuf)
       /\ (file_open = 0 /\ file_open' # 0) => rb_getused_m(sdbuf') = 0]_vars
====
